---- MODULE Spec2Model ----
(***************************************************************************)
(* Out-of-box hook registry (ext/obhook/obhook.c).                         *)
(*                                                                         *)
(* The registry is a two-layer uthash table (CR3 -> address -> callback    *)
(* list) plus a fixed index table of callback records.  The model keeps    *)
(* the heap explicit: hash records, hash tables and callback records are   *)
(* cells of bounded pools, pointers are cell numbers (NULL = 0), and the   *)
(* uthash/utlist macros used by obhook.c are operators on that heap.       *)
(* A cell that has been free()d keeps its last contents; touching it is    *)
(* undefined behaviour, which the model resolves nondeterministically      *)
(* (the access goes through on the stale contents, or the process dies).   *)
(***************************************************************************)
EXTENDS Integers, Sequences, FiniteSets, TLC

\* ------------------------------------------------------------------ bounds
\* capacity of the index table (obhook.h); a small stand-in
MAX_NM_OBHOOK == 3
\* capacity of a label buffer (obhook.h); a small stand-in
MAX_SZ_OBHOOK_LABEL == 2
\* cells available to calloc() for obhk_ht_record
MaxNodes == 4
\* cells available to uthash for UT_hash_table
MaxTbls == 3
\* calls made to the registry in one run
MaxSteps == 5

NULL == 0

\* F applied to the value of v (v is evaluated once)
Bind(v, F(_)) == CHOOSE r \in {F(x) : x \in {v}} : TRUE
NodeId == 1..MaxNodes
TblId == 1..MaxTbls
CbId == 1..(MAX_NM_OBHOOK + 1)
Slots == 0..(MAX_NM_OBHOOK - 1)

\* ------------------------------------------------------- target_ulong values
\* A 64-bit target_ulong is the pair <<top 16 bits, low 48 bits>>.
TUZero == <<0, 0>>
\* what the allocator may leave in the first words of a freed cell
TUPoison == <<43690, 43690>>

RECURSIVE BitAnd(_, _)
BitAnd(a, b) ==
    IF a = 0 \/ b = 0 THEN 0
    ELSE (a % 2) * (b % 2) + 2 * BitAnd(a \div 2, b \div 2)

TUAnd(x, y) == <<BitAnd(x[1], y[1]), BitAnd(x[2], y[2])>>

MASK_KERN_ADDR == <<65535, 0>>

is_kern_addr(addr) == TUAnd(addr, MASK_KERN_ADDR) = MASK_KERN_ADDR

\* ------------------------------------------------------------------- heap
\* keyf: which field hh.key points at (0: keylen 0, 1: cr3, 2: addr)
ZeroNode ==
    [st |-> "unused", addr |-> TUZero, cr3 |-> TUZero, proc_obhk_tbl |-> NULL,
     cb_list |-> <<>>, prev |-> NULL, next |-> NULL, tbl |-> NULL,
     hh_prev |-> NULL, hh_next |-> NULL, keyf |-> 0, hashv |-> 0]

NumBkts == 2
Bkts == 0..(NumBkts - 1)

ZeroTbl == [st |-> "unused", tail |-> NULL, buckets |-> [b \in Bkts |-> NULL]]

ZeroCb ==
    [st |-> "unused", ht_rec |-> NULL, uid |-> 0, enabled |-> FALSE,
     universal |-> FALSE, label |-> [i \in 1..MAX_SZ_OBHOOK_LABEL |-> 0],
     cb_func |-> NULL]

\* the hash of an 8-byte key, and its bucket
HASH_FCN(key) == key[1] + key[2]
HASH_TO_BKT(hashv) == hashv % NumBkts

KeyOf(n) == IF n.keyf = 1 THEN n.cr3 ELSE n.addr

\* A head pointer is obhk_ctx->hook_tbl (ref = NULL) or ref->proc_obhk_tbl.
GetHead(M, ref) == IF ref = NULL THEN M.hook_tbl ELSE M.ht[ref].proc_obhk_tbl

SetHead(M, ref, v) ==
    IF ref = NULL THEN [M EXCEPT !.hook_tbl = v]
    ELSE [M EXCEPT !.ht[ref].proc_obhk_tbl = v]

Freed(M, ns) == \E n \in ns \ {NULL} : M.ht[n].st = "freed"
FreedT(M, t) == t # NULL /\ M.tb[t].st = "freed"

\* ---------------------------------------------------------------- uthash
\* Walk of one bucket chain: the first record whose key matches.
RECURSIVE ChainFind(_, _, _, _)
ChainFind(ht, n, key, fuel) ==
    IF n = NULL THEN [out |-> NULL, seen |-> {}, hang |-> FALSE]
    ELSE IF fuel = 0 THEN [out |-> NULL, seen |-> {}, hang |-> TRUE]
    ELSE IF ht[n].keyf # 0 /\ KeyOf(ht[n]) = key
         THEN [out |-> n, seen |-> {n}, hang |-> FALSE]
    ELSE LET r == ChainFind(ht, ht[n].hh_next, key, fuel - 1)
         IN  [r EXCEPT !.seen = @ \cup {n}]

\* HASH_FIND(hh, head, &key, sizeof(target_ulong), out)
HASH_FIND(M, ref, key) ==
    LET head == GetHead(M, ref) IN
    IF head = NULL
    THEN [out |-> NULL, uaf |-> FALSE, segv |-> FALSE, hang |-> FALSE]
    ELSE LET t == M.ht[head].tbl IN
         IF t = NULL
         THEN [out |-> NULL, uaf |-> Freed(M, {head}), segv |-> TRUE, hang |-> FALSE]
         ELSE Bind(ChainFind(M.ht, M.tb[t].buckets[HASH_TO_BKT(HASH_FCN(key))],
                             key, MaxNodes),
                   LAMBDA r :
                     [out |-> r.out,
                      uaf |-> Freed(M, r.seen \cup {head}) \/ FreedT(M, t),
                      segv |-> FALSE,
                      hang |-> r.hang])

\* HASH_ADD(hh, head, keyfield, sizeof(target_ulong), add); t is the cell
\* HASH_MAKE_TABLE gets when the head is NULL.
HASH_ADD(M, ref, kf, add, t) ==
    LET head == GetHead(M, ref)
        key == IF kf = 1 THEN M.ht[add].cr3 ELSE M.ht[add].addr
        hv == HASH_FCN(key)
        b == HASH_TO_BKT(hv)
        h0 == [M.ht EXCEPT ![add].next = NULL, ![add].keyf = kf, ![add].hashv = hv]
    IN
    IF head = NULL
    THEN LET h1 == [h0 EXCEPT ![add].prev = NULL, ![add].tbl = t,
                              ![add].hh_next = NULL, ![add].hh_prev = NULL]
             tb1 == [M.tb EXCEPT ![t] = [st |-> "live", tail |-> add,
                         buckets |-> [x \in Bkts |-> IF x = b THEN add ELSE NULL]]]
         IN  [m |-> SetHead([M EXCEPT !.ht = h1, !.tb = tb1], ref, add),
              uaf |-> FALSE, segv |-> FALSE]
    ELSE IF M.ht[head].tbl = NULL \/ M.tb[M.ht[head].tbl].tail = NULL
    THEN [m |-> M, uaf |-> Freed(M, {head}), segv |-> TRUE]
    ELSE LET t0 == M.ht[head].tbl
             tail == M.tb[t0].tail
             oldh == M.tb[t0].buckets[b]
             h1 == [h0 EXCEPT ![tail].next = add]
             h2 == [h1 EXCEPT ![add].prev = tail, ![add].tbl = t0]
             \* HASH_ADD_TO_BKT
             h3 == [h2 EXCEPT ![add].hh_next = oldh, ![add].hh_prev = NULL]
             h4 == IF oldh # NULL THEN [h3 EXCEPT ![oldh].hh_prev = add] ELSE h3
             tb1 == [M.tb EXCEPT ![t0].tail = add, ![t0].buckets[b] = add]
         IN  [m |-> [M EXCEPT !.ht = h4, !.tb = tb1],
              uaf |-> Freed(M, {head, tail, oldh}) \/ FreedT(M, t0),
              segv |-> FALSE]

\* HASH_DEL(head, delptr) with head = obhk_ctx->hook_tbl (obhook_delete passes
\* the top-level head whatever table delptr is in).
HASH_DEL(M, del) ==
    LET head == M.hook_tbl
        d == M.ht[del]
    IN
    IF head = NULL \/ M.ht[head].tbl = NULL
    THEN [m |-> M, uaf |-> Freed(M, {head, del}), segv |-> TRUE]
    ELSE
    LET t == M.ht[head].tbl IN
    IF d.prev = NULL /\ d.next = NULL
    THEN \* the table of the head is released and the head cleared
         [m |-> [M EXCEPT !.tb[t].st = "freed", !.hook_tbl = NULL],
          uaf |-> Freed(M, {head, del}) \/ FreedT(M, t),
          segv |-> FALSE]
    ELSE
    LET tb1 == IF del = M.tb[t].tail THEN [M.tb EXCEPT ![t].tail = d.prev] ELSE M.tb
        h1 == IF d.prev # NULL THEN [M.ht EXCEPT ![d.prev].next = d.next] ELSE M.ht
        head1 == IF d.prev # NULL THEN head ELSE d.next
    IN
    Bind(h1, LAMBDA g1 :
    Bind(IF g1[del].next # NULL
         THEN [g1 EXCEPT ![g1[del].next].prev = g1[del].prev] ELSE g1, LAMBDA g2 :
    IF g2[head1].tbl = NULL
    THEN [m |-> M, uaf |-> Freed(M, {head, del, d.prev, d.next}), segv |-> TRUE]
    ELSE
    LET t2 == g2[head1].tbl
        b == HASH_TO_BKT(g2[del].hashv)
        \* HASH_DEL_IN_BKT
        tb2 == IF tb1[t2].buckets[b] = del
               THEN [tb1 EXCEPT ![t2].buckets[b] = g2[del].hh_next] ELSE tb1
    IN
    Bind(IF g2[del].hh_prev # NULL
         THEN [g2 EXCEPT ![g2[del].hh_prev].hh_next = g2[del].hh_next] ELSE g2,
         LAMBDA g3 :
    Bind(IF g3[del].hh_next # NULL
         THEN [g3 EXCEPT ![g3[del].hh_next].hh_prev = g3[del].hh_prev] ELSE g3,
         LAMBDA g4 :
        [m |-> [M EXCEPT !.ht = g4, !.tb = tb2, !.hook_tbl = head1],
         uaf |-> Freed(M, {head, del, d.prev, d.next, d.hh_prev, d.hh_next})
                 \/ FreedT(M, t) \/ FreedT(M, t2),
         segv |-> FALSE]))))

\* HASH_ITER(hh, head, el, tmp): the records from head along hh.next.
RECURSIVE IterFrom(_, _, _)
IterFrom(ht, n, fuel) ==
    IF n = NULL THEN [els |-> <<>>, hang |-> FALSE]
    ELSE IF fuel = 0 THEN [els |-> <<>>, hang |-> TRUE]
    ELSE LET r == IterFrom(ht, ht[n].next, fuel - 1)
         IN  [r EXCEPT !.els = <<n>> \o @]

\* ------------------------------------------------------------------ state
VARIABLES
    hook_tbl,              \* obhk_ctx->hook_tbl
    index_tbl,             \* obhk_ctx->index_tbl
    ht,                    \* the obhk_ht_record cells
    tb,                    \* the UT_hash_table cells
    cbs,                   \* the obhk_cb_record cells
    obhook_pending_hooks,
    obhook_errno,
    halted,                \* "run", or how the process ended
    steps                  \* calls made so far

vars == <<hook_tbl, index_tbl, ht, tb, cbs, obhook_pending_hooks, obhook_errno,
          halted, steps>>

\* a call can be made
Running == halted = "run" /\ steps < MaxSteps

Mem == [hook_tbl |-> hook_tbl, ht |-> ht, tb |-> tb]

\* ----------------------------------------------------------------- inputs
CR3_PROC == <<0, 1>>
KERN_ADDR == <<65535, 1>>
USER_ADDR == <<0, 1>>
\* the top bit set, the 15 below it clear
HALF_ADDR == <<32768, 1>>
Cr3s == {TUZero, CR3_PROC}
Addrs == {KERN_ADDR, USER_ADDR}
\* the addresses obhook_add_universal is tried with
KernAddrs == Addrs \cup {HALF_ADDR}
\* a label is a NULL pointer or a string (its characters, without the terminator)
Str(chars) == [null |-> FALSE, str |-> chars]
LabelNull == [null |-> TRUE, str |-> <<>>]
LabelFit == Str([i \in 1..(MAX_SZ_OBHOOK_LABEL - 1) |-> 7])
LabelLong == Str([i \in 1..MAX_SZ_OBHOOK_LABEL |-> 7])
Labels == {LabelNull, LabelFit, LabelLong}
\* a callback is NULL or a function
Funcs == {NULL, 1}
Descs == (-1)..MAX_NM_OBHOOK

strlen(label) == Len(label.str)

\* strncpy(dst, src, n): the characters of src, then NULs, n in all
strncpy(src, n) == [i \in 1..n |-> IF i <= Len(src.str) THEN src.str[i] ELSE 0]

\* printf("%s", buf): the characters of buf before the first NUL
RECURSIVE CStr(_, _)
CStr(buf, i) ==
    IF i > Len(buf) \/ buf[i] = 0 THEN <<>> ELSE <<buf[i]>> \o CStr(buf, i + 1)

\* ------------------------------------------------------------ allocation
\* calloc(1, sizeof(obhk_ht_record)) returns NULL, a cell never used (they
\* are interchangeable: the lowest), or a cell that was freed.
UnusedNodes(h) == {n \in NodeId : h[n].st = "unused"}
LowestOf(S) == {n \in S : \A m \in S : n <= m}
CallocNode(h) ==
    {NULL} \cup LowestOf(UnusedNodes(h)) \cup {n \in NodeId : h[n].st = "freed"}

\* the cell malloc() gives HASH_MAKE_TABLE, likewise (NULL: out of memory)
MallocTbl(t) ==
    LowestOf({x \in TblId : t[x].st = "unused"}) \cup {x \in TblId : t[x].st = "freed"}

\* callback records are never referenced once freed: any free cell will do
CallocCb(c) == {NULL} \cup LowestOf({x \in CbId : c[x].st = "unused"})

\* ------------------------------------------------------------ get_obhook_uid
\* for( i = 0; i < MAX_NM_OBHOOK; ++i ) if( index_tbl[i] == NULL ) break;
RECURSIVE ScanFrom(_, _)
ScanFrom(tbl, i) ==
    IF i < MAX_NM_OBHOOK /\ tbl[i] # NULL THEN ScanFrom(tbl, i + 1) ELSE i

\* the scan never advances: slot 0 whenever some slot is free
get_obhook_uid_stuck(tbl) ==
    IF ScanFrom(tbl, 0) = MAX_NM_OBHOOK THEN -1 ELSE 0

\* the scan runs from the top of the table down: the highest free slot
get_obhook_uid_downward(tbl) ==
    IF \A i \in Slots : tbl[i] # NULL THEN -1
    ELSE CHOOSE i \in Slots : tbl[i] = NULL /\ \A j \in Slots : tbl[j] = NULL => j <= i

get_obhook_uid(tbl) ==
    LET i == ScanFrom(tbl, 0) IN IF i = MAX_NM_OBHOOK THEN -1 ELSE i

\* ------------------------------------------------------ add_obhk_internal
\* The parameter checks, in the order of the code; "ok" when all pass.
\* the label is checked before the address
AddCheck_label_first(tbl, cr3, addr, label, cb) ==
    IF get_obhook_uid(tbl) = -1 THEN "OBHOOK_ERR_FULL_HOOK"
    ELSE IF ~label.null /\ strlen(label) >= MAX_SZ_OBHOOK_LABEL
         THEN "OBHOOK_ERR_INVALID_LABEL"
    ELSE IF cr3 = TUZero /\ ~is_kern_addr(addr) THEN "OBHOOK_ERR_INVALID_ADDR"
    ELSE IF cb = NULL THEN "OBHOOK_ERR_INVALID_CALLBACK"
    ELSE "ok"

AddCheck(tbl, cr3, addr, label, cb) ==
    IF get_obhook_uid(tbl) = -1 THEN "OBHOOK_ERR_FULL_HOOK"
    ELSE IF cr3 = TUZero /\ ~is_kern_addr(addr) THEN "OBHOOK_ERR_INVALID_ADDR"
    ELSE IF ~label.null /\ strlen(label) >= MAX_SZ_OBHOOK_LABEL
         THEN "OBHOOK_ERR_INVALID_LABEL"
    ELSE IF cb = NULL THEN "OBHOOK_ERR_INVALID_CALLBACK"
    ELSE "ok"

\* HASH_FIND of key under head ref and, when missing, calloc (cell n, NULL
\* when it fails), the keys, HASH_ADD (table cell t when the head is NULL).
\* stop: "run", or how the process ends; fail: calloc returned NULL.
FindOrAdd(M, ref, kf, cr3, addr, n, t) ==
    Bind(HASH_FIND(M, ref, IF kf = 1 THEN cr3 ELSE addr), LAMBDA f :
    LET u0 == f.uaf \/ Freed(M, {ref}) IN
    IF f.segv THEN [m |-> M, rec |-> NULL, uaf |-> u0, stop |-> "segv", fail |-> FALSE]
    ELSE IF f.hang
    THEN [m |-> M, rec |-> NULL, uaf |-> u0, stop |-> "hang", fail |-> FALSE]
    ELSE IF f.out # NULL
    THEN [m |-> M, rec |-> f.out, uaf |-> u0, stop |-> "run", fail |-> FALSE]
    ELSE IF n = NULL
    THEN [m |-> M, rec |-> NULL, uaf |-> u0, stop |-> "run", fail |-> TRUE]
    ELSE IF GetHead(M, ref) = NULL /\ t = NULL
    THEN \* uthash_fatal: exit(-1)
         [m |-> M, rec |-> NULL, uaf |-> u0, stop |-> "exit", fail |-> FALSE]
    ELSE
    LET new == [ZeroNode EXCEPT !.st = "live", !.cr3 = cr3,
                                !.addr = IF kf = 2 THEN addr ELSE TUZero]
    IN  Bind(HASH_ADD([M EXCEPT !.ht[n] = new], ref, kf, n, t), LAMBDA a :
          [m |-> a.m, rec |-> n, uaf |-> u0 \/ a.uaf,
           stop |-> IF a.segv THEN "segv" ELSE "run", fail |-> FALSE]))

\* the cells FindOrAdd may be given
NodeChoices(M, ref, key) ==
    LET f == HASH_FIND(M, ref, key) IN
    IF f.segv \/ f.hang \/ f.out # NULL THEN {NULL} ELSE CallocNode(M.ht)

TblChoices(M, ref, n) ==
    IF n = NULL \/ GetHead(M, ref) # NULL THEN {NULL} ELSE {NULL} \cup MallocTbl(M.tb)

\* lines 198-221: the callback record (cell c), linked and indexed
NewCb(site, uid, label, cb) ==
    [st |-> "live", ht_rec |-> site.id, uid |-> uid % 65536, enabled |-> TRUE,
     universal |-> (site.cr3 = TUZero),
     label |-> strncpy(label, MAX_SZ_OBHOOK_LABEL), cb_func |-> cb]

\* The whole of add_obhk_internal on registry R, given what the allocator
\* returns: n1, t1 for the 1-layer record, n2, t2 for the 2-layer record, c
\* for the callback record.  ret, stop and uaf tell how the call ended.
AddRun(R, cr3, addr, label, cb, n1, t1, n2, t2, c) ==
    LET chk == AddCheck(R.index_tbl, cr3, addr, label, cb)
        new_uid == get_obhook_uid(R.index_tbl)
        M0 == [hook_tbl |-> R.hook_tbl, ht |-> R.ht, tb |-> R.tb]
        Stop(how, uaf) == [R EXCEPT !.ret = -1, !.stop = how, !.uaf = uaf]
        Fail(M, err, uaf) ==
            [R EXCEPT !.hook_tbl = M.hook_tbl, !.ht = M.ht, !.tb = M.tb,
                      !.errno = err, !.ret = -1, !.uaf = uaf]
    IN
    IF chk # "ok" THEN Fail(M0, chk, FALSE)
    ELSE
    Bind(FindOrAdd(M0, NULL, 1, cr3, addr, n1, t1), LAMBDA s1 :
    IF s1.stop # "run" THEN Stop(s1.stop, s1.uaf)
    ELSE IF s1.fail THEN Fail(M0, "OBHOOK_ERR_FAIL", s1.uaf)
    ELSE
    Bind(FindOrAdd(s1.m, s1.rec, 2, cr3, addr, n2, t2), LAMBDA s2 :
    LET u2 == s1.uaf \/ s2.uaf IN
    IF s2.stop # "run" THEN Stop(s2.stop, u2)
    ELSE IF s2.fail THEN Fail(s1.m, "OBHOOK_ERR_FAIL", u2)
    ELSE IF c = NULL THEN Fail(s2.m, "OBHOOK_ERR_FAIL", u2)
    ELSE IF label.null
    THEN \* strncpy( cb_rec->label, NULL, MAX_SZ_OBHOOK_LABEL )
         Stop("segv", u2)
    ELSE
    LET site == s2.rec
        rec == NewCb([id |-> site, cr3 |-> s2.m.ht[site].cr3], new_uid, label, cb)
    IN  [R EXCEPT !.hook_tbl = s2.m.hook_tbl,
                  \* LL_APPEND( cb_rec->ht_rec->cb_list, cb_rec )
                  !.ht = [s2.m.ht EXCEPT ![site].cb_list = Append(@, c)],
                  !.tb = s2.m.tb,
                  !.cbs = [R.cbs EXCEPT ![c] = rec],
                  !.index_tbl = [R.index_tbl EXCEPT ![rec.uid] = c],
                  !.pending = TRUE,
                  !.ret = rec.uid,
                  !.uaf = u2 \/ Freed(s2.m, {site})]))

\* the registry now; ret, stop, uaf: filled in by a run of an operation
Reg ==
    [hook_tbl |-> hook_tbl, ht |-> ht, tb |-> tb, cbs |-> cbs,
     index_tbl |-> index_tbl, pending |-> obhook_pending_hooks,
     errno |-> obhook_errno, ret |-> 0, stop |-> "run", uaf |-> FALSE]

\* ------------------------------------------------------- cell numbering
\* Which cell of the pool an allocation got is not observable, and of memory
\* no pointer of the program leads to any more only the amount matters.
\* After each call the cells still reachable are renumbered in the order a
\* walk from obhk_ctx finds them; the unreachable ones follow: those never
\* freed stay allocated for good ("leaked", contents dropped), those freed go
\* back to the pool.  A freed cell that some pointer still leads to stays,
\* freed, with its contents.
SeqSet(q) == {q[i] : i \in 1..Len(q)}

NodeSuccs(O, n) ==
    <<O.ht[n].next, O.ht[n].proc_obhk_tbl, O.ht[n].prev, O.ht[n].hh_next,
      O.ht[n].hh_prev>>
    \o (IF O.ht[n].tbl = NULL THEN <<>>
        ELSE <<O.tb[O.ht[n].tbl].tail>>
             \o [b \in 1..NumBkts |-> O.tb[O.ht[n].tbl].buckets[b - 1]])

RECURSIVE Walk(_, _, _)
Walk(O, todo, acc) ==
    IF todo = <<>> THEN acc
    ELSE IF Head(todo) = NULL \/ Head(todo) \in SeqSet(acc)
         THEN Walk(O, Tail(todo), acc)
    ELSE Walk(O, NodeSuccs(O, Head(todo)) \o Tail(todo), Append(acc, Head(todo)))

RECURSIVE Distinct(_, _)
Distinct(q, acc) ==
    IF q = <<>> THEN acc
    ELSE IF Head(q) = NULL \/ Head(q) \in SeqSet(acc) THEN Distinct(Tail(q), acc)
    ELSE Distinct(Tail(q), Append(acc, Head(q)))

RECURSIVE Flatten(_)
Flatten(qq) == IF qq = <<>> THEN <<>> ELSE Head(qq) \o Flatten(Tail(qq))

IndexOf(q, x) == IF x = NULL THEN NULL ELSE CHOOSE i \in 1..Len(q) : q[i] = x

Renumber(O, ns, ts, cs) ==
    LET N(x) == IndexOf(ns, x)
        T(x) == IndexOf(ts, x)
        C(x) == IndexOf(cs, x)
        node(n) == [n EXCEPT !.proc_obhk_tbl = N(@), !.prev = N(@), !.next = N(@),
                             !.hh_prev = N(@), !.hh_next = N(@), !.tbl = T(@),
                             !.cb_list = [k \in 1..Len(n.cb_list) |-> C(n.cb_list[k])]]
        tbl(t) == [t EXCEPT !.tail = N(@), !.buckets = [b \in Bkts |-> N(t.buckets[b])]]
        cb(c) == [c EXCEPT !.ht_rec = N(@)]
        InUse(st) == st = "live" \/ st = "leaked"
        lostN == Cardinality({n \in NodeId \ SeqSet(ns) : InUse(O.ht[n].st)})
        lostT == Cardinality({t \in TblId \ SeqSet(ts) : InUse(O.tb[t].st)})
        lostC == Cardinality({c \in CbId \ SeqSet(cs) : InUse(O.cbs[c].st)})
    IN  [O EXCEPT
           !.hook_tbl = N(@),
           !.index_tbl = [i \in Slots |-> C(O.index_tbl[i])],
           !.ht = [n \in NodeId |->
                     IF n <= Len(ns) THEN node(O.ht[ns[n]])
                     ELSE IF n <= Len(ns) + lostN THEN [ZeroNode EXCEPT !.st = "leaked"]
                     ELSE ZeroNode],
           !.tb = [t \in TblId |->
                     IF t <= Len(ts) THEN tbl(O.tb[ts[t]])
                     ELSE IF t <= Len(ts) + lostT THEN [ZeroTbl EXCEPT !.st = "leaked"]
                     ELSE ZeroTbl],
           !.cbs = [c \in CbId |->
                     IF c <= Len(cs) THEN cb(O.cbs[cs[c]])
                     ELSE IF c <= Len(cs) + lostC THEN [ZeroCb EXCEPT !.st = "leaked"]
                     ELSE ZeroCb]]

Collect(O) ==
    LET slotCbs == [i \in 1..MAX_NM_OBHOOK |-> O.index_tbl[i - 1]]
        roots == <<O.hook_tbl>>
                 \o [i \in 1..MAX_NM_OBHOOK |->
                       IF slotCbs[i] = NULL THEN NULL ELSE O.cbs[slotCbs[i]].ht_rec]
    IN
    Bind(Walk(O, roots, <<>>), LAMBDA ns :
    Bind(Distinct([i \in 1..Len(ns) |-> O.ht[ns[i]].tbl], <<>>), LAMBDA ts :
    Bind(Distinct(slotCbs \o Flatten([i \in 1..Len(ns) |-> O.ht[ns[i]].cb_list]),
                  <<>>), LAMBDA cs :
      Renumber(O, ns, ts, cs))))

\* The call returns: the registry becomes O.
Return(O) ==
    \E G \in {Collect(O)} :
    /\ hook_tbl' = G.hook_tbl
    /\ ht' = G.ht
    /\ tb' = G.tb
    /\ cbs' = G.cbs
    /\ index_tbl' = G.index_tbl
    /\ obhook_pending_hooks' = G.pending
    /\ obhook_errno' = G.errno
    /\ halted' = "run"
    /\ steps' = steps + 1

\* The call does not return: the process ends (how: segv, exit, hang), and
\* with it the registry.
Halt(how) ==
    /\ halted' = how
    /\ hook_tbl' = NULL
    /\ index_tbl' = [i \in Slots |-> NULL]
    /\ ht' = [n \in NodeId |-> ZeroNode]
    /\ tb' = [t \in TblId |-> ZeroTbl]
    /\ cbs' = [c \in CbId |-> ZeroCb]
    /\ obhook_pending_hooks' = FALSE
    /\ obhook_errno' = "zero"
    /\ steps' = steps + 1

\* die: an access to freed memory is fatal (possible only when one happened)
Finish(run, die) ==
    \E O \in {run} :
    /\ die => O.uaf
    /\ IF die THEN Halt("segv")
       ELSE IF O.stop # "run" THEN Halt(O.stop)
       ELSE Return(O)

\* every way add_obhk_internal can run from registry R: one AddRun per
\* answer of the allocator to the calls the code makes
AddOutcomes(R, cr3, addr, label, cb) ==
    LET M0 == [hook_tbl |-> R.hook_tbl, ht |-> R.ht, tb |-> R.tb]
        Rest(n1, t1) ==
            Bind(FindOrAdd(M0, NULL, 1, cr3, addr, n1, t1), LAMBDA s1 :
              IF s1.stop # "run" \/ s1.fail
              THEN {AddRun(R, cr3, addr, label, cb, n1, t1, NULL, NULL, NULL)}
              ELSE UNION {
                     {AddRun(R, cr3, addr, label, cb, n1, t1, n2, t2, c) :
                        t2 \in TblChoices(s1.m, s1.rec, n2), c \in CallocCb(R.cbs)} :
                     n2 \in NodeChoices(s1.m, s1.rec, addr)})
    IN
    IF AddCheck(R.index_tbl, cr3, addr, label, cb) # "ok"
    THEN {AddRun(R, cr3, addr, label, cb, NULL, NULL, NULL, NULL, NULL)}
    ELSE UNION { UNION {Rest(n1, t1) : t1 \in TblChoices(M0, NULL, n1)} :
                 n1 \in NodeChoices(M0, NULL, cr3)}

add_obhk_internal(cr3, addr, label, cb) ==
    /\ Running
    /\ \E O \in AddOutcomes(Reg, cr3, addr, label, cb) :
         \E die \in BOOLEAN : Finish(O, die)

\* return add_obhk_internal( cr3, addr, label, cb );
AddProcessOutcomes(R, cr3, addr, label, cb) == AddOutcomes(R, cr3, addr, label, cb)

obhook_add_process(cr3, addr, label, cb) ==
    /\ Running
    /\ \E O \in AddProcessOutcomes(Reg, cr3, addr, label, cb) :
         \E die \in BOOLEAN : Finish(O, die)

\* the two target_ulong arguments change places
AddUniversalOutcomes_swapped(R, kern_addr, label, cb) ==
    AddOutcomes(R, kern_addr, TUZero, label, cb)

\* return add_obhk_internal( 0, kern_addr, label, cb );
AddUniversalOutcomes(R, kern_addr, label, cb) ==
    AddOutcomes(R, TUZero, kern_addr, label, cb)

obhook_add_universal(kern_addr, label, cb) ==
    /\ Running
    /\ \E O \in AddUniversalOutcomes(Reg, kern_addr, label, cb) :
         \E die \in BOOLEAN : Finish(O, die)

\* ------------------------------------------------------------ toggle_obhk
InRange(d) == 0 <= d /\ d < MAX_NM_OBHOOK

\* index_tbl[obhook_d] with obhook_d outside the array reads whatever lies
\* beside it: NULL, or something that is not a callback record.
\* the NULL test of line 118 left out: the empty slot is dereferenced
ToggleRun_unchecked(R, obhook_d, enabled) ==
    IF R.index_tbl[obhook_d] = NULL
    THEN [R EXCEPT !.stop = "segv"]
    ELSE [R EXCEPT !.cbs[R.index_tbl[obhook_d]].enabled = enabled, !.ret = 0]

\* the toggle asks for re-translation, as an Add does
ToggleRun_retranslate(R, obhook_d, enabled) ==
    IF R.index_tbl[obhook_d] = NULL
    THEN [R EXCEPT !.errno = "OBHOOK_ERR_INVALID_DESCRIPTOR", !.ret = -1]
    ELSE [R EXCEPT !.cbs[R.index_tbl[obhook_d]].enabled = enabled, !.ret = 0,
                   !.pending = TRUE]

\* the flag is set on every callback of the site, not on the one resolved
ToggleRun_site(R, obhook_d, enabled) ==
    IF R.index_tbl[obhook_d] = NULL
    THEN [R EXCEPT !.errno = "OBHOOK_ERR_INVALID_DESCRIPTOR", !.ret = -1]
    ELSE [R EXCEPT !.cbs = [c \in CbId |->
                              IF R.cbs[c].st = "live"
                                 /\ R.cbs[c].ht_rec = R.cbs[R.index_tbl[obhook_d]].ht_rec
                              THEN [R.cbs[c] EXCEPT !.enabled = enabled]
                              ELSE R.cbs[c]],
                   !.ret = 0]

ToggleRun(R, obhook_d, enabled) ==
    IF R.index_tbl[obhook_d] = NULL
    THEN [R EXCEPT !.errno = "OBHOOK_ERR_INVALID_DESCRIPTOR", !.ret = -1]
    ELSE [R EXCEPT !.cbs[R.index_tbl[obhook_d]].enabled = enabled, !.ret = 0]

\* what a call with obhook_d outside the array can come to
WildRun(R, slot) ==
    CASE slot = "null" -> [R EXCEPT !.errno = "OBHOOK_ERR_INVALID_DESCRIPTOR", !.ret = -1]
      [] slot = "wild" -> [R EXCEPT !.stop = "segv"]
      [] slot = "mapped" -> [R EXCEPT !.ret = 0]

ToggleOutcomes(R, obhook_d, enabled) ==
    IF InRange(obhook_d)
    THEN {ToggleRun(R, obhook_d, enabled)}
    ELSE {WildRun(R, slot) : slot \in {"null", "wild", "mapped"}}

toggle_obhk(obhook_d, enabled) ==
    /\ Running
    /\ \E O \in ToggleOutcomes(Reg, obhook_d, enabled) : Finish(O, FALSE)

obhook_enable(obhook_d) == toggle_obhk(obhook_d, TRUE)

obhook_disable(obhook_d) == toggle_obhk(obhook_d, FALSE)

\* ------------------------------------------------------------ obhook_delete
\* LL_DELETE( head, del ): del unlinked; a NULL head is dereferenced
LL_DELETE(list, del) == SelectSeq(list, LAMBDA x : x # del)

\* free( ht_rec ): the cell keeps its contents, but for the first words,
\* which the allocator may overwrite (clobber)
FreeNode(h, n, clobber) ==
    [h EXCEPT ![n].st = "freed",
              ![n].addr = IF clobber THEN TUPoison ELSE @,
              ![n].cr3 = IF clobber THEN TUPoison ELSE @]

DeleteRun(R, obhook_d, clobber) ==
    LET cb_rec == R.index_tbl[obhook_d]
        M0 == [hook_tbl |-> R.hook_tbl, ht |-> R.ht, tb |-> R.tb]
    IN
    IF cb_rec = NULL
    THEN [R EXCEPT !.errno = "OBHOOK_ERR_INVALID_DESCRIPTOR", !.ret = -1]
    ELSE
    LET ht_rec == R.cbs[cb_rec].ht_rec
        u0 == Freed(M0, {ht_rec})
        Unbound(M, uaf) ==
            [R EXCEPT !.hook_tbl = M.hook_tbl, !.ht = M.ht, !.tb = M.tb,
                      !.index_tbl = [R.index_tbl EXCEPT ![obhook_d] = NULL],
                      !.cbs = [R.cbs EXCEPT ![cb_rec] = ZeroCb],
                      !.ret = 0, !.uaf = uaf]
    IN
    IF R.ht[ht_rec].cb_list = <<>>
    THEN [R EXCEPT !.stop = "segv", !.uaf = u0]
    ELSE
    Bind([M0 EXCEPT !.ht[ht_rec].cb_list = LL_DELETE(@, cb_rec)], LAMBDA M1 :
    IF M1.ht[ht_rec].cb_list # <<>>
    THEN Unbound(M1, u0)
    ELSE
    Bind(HASH_DEL(M1, ht_rec), LAMBDA del :
    IF del.segv
    THEN [R EXCEPT !.stop = "segv", !.uaf = u0 \/ del.uaf]
    ELSE Unbound([del.m EXCEPT !.ht = FreeNode(@, ht_rec, clobber)], u0 \/ del.uaf)))

\* free may overwrite the record only when the record is freed
DeleteOutcomes(R, obhook_d) ==
    IF ~InRange(obhook_d)
    THEN {WildRun(R, slot) : slot \in {"null", "wild"}}
    ELSE IF R.index_tbl[obhook_d] = NULL
    THEN {DeleteRun(R, obhook_d, FALSE)}
    ELSE IF Len(R.ht[R.cbs[R.index_tbl[obhook_d]].ht_rec].cb_list) = 1
    THEN {DeleteRun(R, obhook_d, clobber) : clobber \in BOOLEAN}
    ELSE {DeleteRun(R, obhook_d, FALSE)}

obhook_delete(obhook_d) ==
    /\ Running
    /\ \E O \in DeleteOutcomes(Reg, obhook_d) :
         \E die \in BOOLEAN : Finish(O, die)

\* -------------------------------------------------------------- obhook_list
\* What obhook_list prints and calls, in order: <<"CR3", cr3>> per 1-layer
\* record, <<"ADDR", cr3, addr>> per 2-layer record under it, and
\* <<"CB", cr3, addr, uid, label, enabled>> per callback record (cr3 and addr
\* as last printed); fired: the cb_func called.
CbLines(R, top, site, list) ==
    [i \in 1..Len(list) |->
        <<"CB", R.ht[top].cr3, R.ht[site].addr, R.cbs[list[i]].uid,
          CStr(R.cbs[list[i]].label, 1),
          IF R.cbs[list[i]].enabled THEN 1 ELSE 0>>]

RECURSIVE SiteLines(_, _, _)
SiteLines(R, top, sites) ==
    IF sites = <<>> THEN <<>>
    ELSE <<<<"ADDR", R.ht[top].cr3, R.ht[Head(sites)].addr>>>>
         \o CbLines(R, top, Head(sites), R.ht[Head(sites)].cb_list)
         \o SiteLines(R, top, Tail(sites))

RECURSIVE TopLines(_, _)
TopLines(R, tops) ==
    IF tops = <<>> THEN <<>>
    ELSE <<<<"CR3", R.ht[Head(tops)].cr3>>>>
         \o SiteLines(R, Head(tops),
                      IterFrom(R.ht, R.ht[Head(tops)].proc_obhk_tbl, MaxNodes).els)
         \o TopLines(R, Tail(tops))

ListTops(R) == IterFrom(R.ht, R.hook_tbl, MaxNodes)

ListSites(R, tops) ==
    [i \in 1..Len(tops) |-> IterFrom(R.ht, R.ht[tops[i]].proc_obhk_tbl, MaxNodes)]

\* every record obhook_list visits
ListVisited(R) ==
    Bind(ListTops(R).els, LAMBDA tops :
    Bind(ListSites(R, tops), LAMBDA sites :
      SeqSet(tops) \cup UNION {SeqSet(sites[i].els) : i \in 1..Len(tops)}))

ListHangs(R) ==
    Bind(ListTops(R), LAMBDA t :
      t.hang \/ \E i \in 1..Len(t.els) : ListSites(R, t.els)[i].hang)

ListPrinted(R) == TopLines(R, ListTops(R).els)

\* the callbacks called, in order: cb_rec->cb_func(NULL), by uid
ListFired(R) ==
    Bind(SelectSeq(ListPrinted(R), LAMBDA l : l[1] = "CB"), LAMBDA cb :
      [i \in 1..Len(cb) |-> cb[i][4]])

ListRun(R) ==
    [R EXCEPT !.ret = -1,
              !.stop = IF ListHangs(R) THEN "hang" ELSE "run",
              !.uaf = Freed(R, ListVisited(R))]

obhook_list ==
    /\ Running
    /\ \E die \in BOOLEAN : Finish(ListRun(Reg), die)

\* ------------------------------------------------------------- environment
\* The translation cache observes the pending flag and resets it.
ConsumePending ==
    /\ Running
    /\ obhook_pending_hooks' = FALSE
    /\ steps' = steps + 1
    /\ UNCHANGED <<hook_tbl, index_tbl, ht, tb, cbs, obhook_errno, halted>>

\* ------------------------------------------------------------ specification
Init ==
    /\ hook_tbl = NULL
    /\ index_tbl = [i \in Slots |-> NULL]
    /\ ht = [n \in NodeId |-> ZeroNode]
    /\ tb = [t \in TblId |-> ZeroTbl]
    /\ cbs = [c \in CbId |-> ZeroCb]
    /\ obhook_pending_hooks = FALSE
    /\ obhook_errno = "zero"
    /\ halted = "run"
    /\ steps = 0

AddProcessStep == \E cr3 \in Cr3s, addr \in Addrs, label \in Labels, cb \in Funcs :
                    obhook_add_process(cr3, addr, label, cb)

AddUniversalStep == \E addr \in KernAddrs, label \in Labels, cb \in Funcs :
                      obhook_add_universal(addr, label, cb)

EnableStep == \E d \in Descs : obhook_enable(d)

DisableStep == \E d \in Descs : obhook_disable(d)

DeleteStep == \E d \in Descs : obhook_delete(d)

ListStep == obhook_list

Next ==
    \/ AddProcessStep
    \/ AddUniversalStep
    \/ EnableStep
    \/ DisableStep
    \/ DeleteStep
    \/ ListStep
    \/ ConsumePending

Spec == Init /\ [][Next]_vars

\* ------------------------------------------------------------------ views
\* the arguments an Add may be called with
AddInputs == Cr3s \X Addrs \X Labels \X Funcs

\* every way an Add can run from the current registry
AddsHere == UNION {AddOutcomes(Reg, in[1], in[2], in[3], in[4]) : in \in AddInputs}

\* the call returned to its caller
Returned(O) == O.stop = "run"

\* the descriptors bound to a callback
Live(R) == {d \in Slots : R.index_tbl[d] # NULL}

\* the registry but for obhook_errno
registry == <<hook_tbl, index_tbl, ht, tb, cbs, obhook_pending_hooks>>

\* the step is a call of add_obhk_internal with these arguments
IsAdd(in) == add_obhk_internal(in[1], in[2], in[3], in[4])

\* the step returned to its caller
Returns == halted' = "run"

\* the step bound no descriptor
BindsNone == \A d \in Slots : index_tbl[d] = NULL => index_tbl'[d] = NULL

\* the registry after the step
RegNext ==
    [hook_tbl |-> hook_tbl', ht |-> ht', tb |-> tb', cbs |-> cbs',
     index_tbl |-> index_tbl', pending |-> obhook_pending_hooks',
     errno |-> obhook_errno', ret |-> 0, stop |-> "run", uaf |-> FALSE]

\* ------------------------------------------------------------------ claims
\* C1: every Add that succeeds returns a descriptor in 0..MAX_NM_OBHOOK-1
\* that no live callback had when the call was made, and binds it to the new
\* callback alone; no two live callbacks share a descriptor.
C1_UniqueDescriptor ==
    /\ \A d \in Live(Reg) :
          /\ cbs[index_tbl[d]].st = "live"
          /\ cbs[index_tbl[d]].uid = d
          /\ \A e \in Live(Reg) \ {d} : index_tbl[e] # index_tbl[d]
    /\ \A O \in AddsHere :
          Returned(O) /\ O.ret # -1 =>
            /\ O.ret \in Slots
            /\ O.ret \notin Live(Reg)
            /\ Live(O) = Live(Reg) \cup {O.ret}
            /\ O.cbs[O.index_tbl[O.ret]].uid = O.ret
            /\ \A e \in Live(Reg) :
                  /\ O.index_tbl[e] = index_tbl[e]
                  /\ O.index_tbl[e] # O.index_tbl[O.ret]
                  /\ O.cbs[O.index_tbl[e]].uid = e

\* two Adds succeeded around a Delete: descriptors 0 and 2 live, 1 free
C1_Witness ==
    /\ halted = "run"
    /\ Live(Reg) = {0, 2}
    /\ \E O \in AddsHere : Returned(O) /\ O.ret = 1

\* what a caller is told when the descriptor names no callback
InvalidDescriptor(R) == [R EXCEPT !.errno = "OBHOOK_ERR_INVALID_DESCRIPTOR", !.ret = -1]

\* every way an Enable, Disable or Delete of descriptor d can run from here
TogglesHere(d) == ToggleOutcomes(Reg, d, TRUE) \cup ToggleOutcomes(Reg, d, FALSE)

DeletesHere(d) == DeleteOutcomes(Reg, d)

\* C2: a Delete that succeeds unbinds its descriptor d; while d is unbound,
\* Enable(d), Disable(d) and Delete(d) fail with
\* OBHOOK_ERR_INVALID_DESCRIPTOR and change nothing, and no operation but an
\* Add that returns d binds it; such an Add binds d to its own new callback
\* alone, after which Enable(d) and Disable(d) succeed on that callback.
C2_DeletedDescriptorInvalid ==
    /\ \A d \in Slots : \A O \in DeletesHere(d) :
          Returned(O) /\ O.ret = 0 => d \in Live(Reg) /\ Live(O) = Live(Reg) \ {d}
    /\ \A d \in Slots \ Live(Reg) :
          /\ \A O \in TogglesHere(d) \cup DeletesHere(d) : O = InvalidDescriptor(Reg)
          /\ \A e \in Descs : \A O \in TogglesHere(e) \cup DeletesHere(e) \cup {ListRun(Reg)} :
                Returned(O) => d \notin Live(O)
          /\ \A in \in AddInputs : \A O \in AddOutcomes(Reg, in[1], in[2], in[3], in[4]) :
                Returned(O) /\ d \in Live(O) =>
                  /\ O.ret = d
                  /\ \A e \in Live(Reg) : O.index_tbl[e] # O.index_tbl[d]
                  /\ O.cbs[O.index_tbl[d]].cb_func = in[4]
                  /\ O.cbs[O.index_tbl[d]].label = strncpy(in[3], MAX_SZ_OBHOOK_LABEL)
                  /\ \A en \in BOOLEAN :
                        ToggleRun(O, d, en) =
                          [O EXCEPT !.cbs[O.index_tbl[d]].enabled = en, !.ret = 0]

\* descriptor 0 was deleted while 1 is live, a call on an unbound descriptor
\* has failed since, and the next Add returns 0 again
C2_Witness ==
    /\ halted = "run"
    /\ Live(Reg) = {1}
    /\ obhook_errno = "OBHOOK_ERR_INVALID_DESCRIPTOR"
    /\ \E O \in AddsHere : Returned(O) /\ O.ret = 0

\* the callbacks obhook_list prints
ListedCallbacks(R) == SelectSeq(ListPrinted(R), LAMBDA l : l[1] = "CB")

\* the callback bound to descriptor d, as obhook_list should print it
BoundLine(R, d) ==
    LET cb == R.cbs[R.index_tbl[d]] IN
    <<"CB", R.ht[cb.ht_rec].cr3, R.ht[cb.ht_rec].addr, d, CStr(cb.label, 1),
      IF cb.enabled THEN 1 ELSE 0>>

\* C3: obhook_list prints exactly the callbacks bound in index_tbl, each
\* once, under its cr3 and addr, with its label and its enabled flag (true in
\* the registry a successful Add returns).
C3_ListShowsBoundCallbacks ==
    /\ halted = "run" =>
          /\ SeqSet(ListedCallbacks(Reg)) = {BoundLine(Reg, d) : d \in Live(Reg)}
          /\ Len(ListedCallbacks(Reg)) = Cardinality(Live(Reg))
    /\ \A O \in AddsHere :
          Returned(O) /\ O.ret # -1 => BoundLine(O, O.ret)[6] = 1

\* the sites (cr3, addr) obhook_list prints
ListedSites(R) ==
    {<<l[2], l[3]>> : l \in {x \in SeqSet(ListPrinted(R)) : x[1] = "ADDR"}}

\* the site (cr3, addr) of the callback bound to descriptor d
SiteOf(R, d) ==
    <<R.ht[R.cbs[R.index_tbl[d]].ht_rec].cr3, R.ht[R.cbs[R.index_tbl[d]].ht_rec].addr>>

\* C4: when a Delete removes the only callback registered at a site
\* (cr3, addr), obhook_list no longer prints that site.
C4_EmptiedSiteUnlisted ==
    [][\A d \in Live(Reg) :
         /\ Returns
         /\ index_tbl'[d] = NULL
         /\ \A e \in Live(Reg) \ {d} : SiteOf(Reg, e) # SiteOf(Reg, d)
         /\ obhook_delete(d)
         => SiteOf(Reg, d) \notin ListedSites(RegNext)]_vars

\* C5: an Add that fails (returns -1, whatever the error) leaves the registry
\* as it was: no new 1-layer or 2-layer record, no callback record, no slot
\* bound, the pending flag unchanged.
C5_FailedAddChangesNothing ==
    [][\A in \in AddInputs :
         IsAdd(in) /\ Returns /\ BindsNone => UNCHANGED registry]_vars

\* the arguments the checks of add_obhk_internal let through
ValidInputs == {in \in AddInputs : /\ in[1] # TUZero \/ is_kern_addr(in[2])
                                   /\ in[3].null \/ strlen(in[3]) < MAX_SZ_OBHOOK_LABEL
                                   /\ in[4] # NULL}

\* C6: an Add with valid address, label and callback fails with
\* OBHOOK_ERR_FULL_HOOK exactly when MAX_NM_OBHOOK callbacks are live; with
\* fewer live it returns a descriptor.  Running out of memory is set aside:
\* an Add may then report OBHOOK_ERR_FAIL, or end in the exit of the hash
\* table's own allocation.
C6_FullExactlyAtCapacity ==
    [][\A in \in ValidInputs :
         IsAdd(in) /\ halted' # "exit" =>
           /\ Returns
           /\ IF Cardinality(Live(Reg)) = MAX_NM_OBHOOK
              THEN BindsNone /\ obhook_errno' = "OBHOOK_ERR_FULL_HOOK"
              ELSE ~BindsNone \/ obhook_errno' = "OBHOOK_ERR_FAIL"]_vars

\* C7: Enable, Disable and Delete of a descriptor outside
\* 0..MAX_NM_OBHOOK-1 fail with OBHOOK_ERR_INVALID_DESCRIPTOR and change
\* nothing.
C7_OutOfRangeInvalid ==
    [][\A d \in Descs \ Slots :
         obhook_enable(d) \/ obhook_disable(d) \/ obhook_delete(d) =>
           /\ Returns
           /\ obhook_errno' = "OBHOOK_ERR_INVALID_DESCRIPTOR"
           /\ UNCHANGED registry]_vars

\* C8: the pending flag is true exactly when an Add has succeeded since the
\* translation cache last reset it: a step that binds a descriptor (an Add
\* that succeeds) sets it, the reset of the cache clears it, and every other
\* call that returns (failed Add, Enable, Disable, Delete, List) leaves it.
C8_PendingFlag ==
    [][Returns =>
         obhook_pending_hooks' = IF ~BindsNone THEN TRUE
                                 ELSE IF ConsumePending THEN FALSE
                                 ELSE obhook_pending_hooks]_vars

\* an Add succeeded, and the cache has reset the flag since
C8_Witness ==
    /\ halted = "run"
    /\ Live(Reg) # {}
    /\ ~obhook_pending_hooks

\* the descriptors obhook_list prints (and calls) under site k, in order
FiredAt(R, k) ==
    Bind(SelectSeq(ListPrinted(R), LAMBDA l : l[1] = "CB" /\ <<l[2], l[3]>> = k),
         LAMBDA cb : [i \in 1..Len(cb) |-> cb[i][4]])

\* C9: an Add at a site (cr3, addr) that succeeds puts its callback after
\* every callback registered at that site before: obhook_list prints the
\* site's callbacks, all of them, in the order they were added.
C9_RegistrationOrder ==
    [][\A in \in AddInputs : \A d \in Slots \ Live(Reg) :
         /\ Returns
         /\ index_tbl'[d] # NULL
         /\ IsAdd(in)
         => LET k == <<in[1], in[2]>> IN
            /\ FiredAt(RegNext, k) = Append(FiredAt(Reg, k), d)
            /\ \A e \in Live(Reg) :
                 SiteOf(Reg, e) = k => e \in SeqSet(FiredAt(RegNext, k))]_vars

\* what obhook_list prints once the callback of descriptor d has its flag set
\* to en and nothing else has changed
Toggled(lines, d, en) ==
    [i \in 1..Len(lines) |->
       IF lines[i][1] = "CB" /\ lines[i][4] = d
       THEN [lines[i] EXCEPT ![6] = IF en THEN 1 ELSE 0]
       ELSE lines[i]]

\* C10: Enable / Disable of a live descriptor d returns 0 and sets the
\* enabled flag of the callback of d, whatever it was; every other callback's
\* flag, index_tbl, the 1-layer and 2-layer records, the pending flag and
\* obhook_errno stay, and obhook_list prints what it printed, the flag of d
\* apart.
C10_ToggleFrame ==
    \A d \in Live(Reg), en \in BOOLEAN : \A O \in ToggleOutcomes(Reg, d, en) :
       /\ Returned(O) /\ O.ret = 0
       /\ O.cbs[O.index_tbl[d]].enabled = en
       /\ \A e \in Live(Reg) \ {d} :
            O.cbs[O.index_tbl[e]].enabled = cbs[index_tbl[e]].enabled
       /\ O.index_tbl = index_tbl
       /\ O.hook_tbl = hook_tbl /\ O.ht = ht /\ O.tb = tb
       /\ O.pending = obhook_pending_hooks
       /\ O.errno = obhook_errno
       /\ ListPrinted(O) = Toggled(ListPrinted(Reg), d, en)

\* two callbacks at one site, the first disabled, the second enabled
C10_Witness ==
    /\ halted = "run"
    /\ \E d, e \in Live(Reg) :
         /\ d # e
         /\ SiteOf(Reg, d) = SiteOf(Reg, e)
         /\ ~cbs[index_tbl[d]].enabled
         /\ cbs[index_tbl[e]].enabled
         /\ FiredAt(Reg, SiteOf(Reg, d)) = <<d, e>>

\* every argument list an Add is tried with, through either entry point
ProbeInputs == Cr3s \X KernAddrs \X Labels \X Funcs

\* the call failed with this error
FailedWith(O, err) == Returned(O) /\ O.ret = -1 /\ O.errno = err

\* C11: while a descriptor is free, an Add fails with OBHOOK_ERR_INVALID_ADDR
\* exactly when cr3 is 0 and the top 16 bits of addr are not all set (then
\* whatever the allocator does); with cr3 # 0 it never does; and every live
\* callback whose site has cr3 = 0 sits at an address with all 16 set.
C11_InvalidAddress ==
    /\ Live(Reg) # Slots =>
          \A in \in ProbeInputs :
            \A O \in AddOutcomes(Reg, in[1], in[2], in[3], in[4]) :
              FailedWith(O, "OBHOOK_ERR_INVALID_ADDR")
                <=> (in[1] = TUZero /\ in[2][1] # 65535)
    /\ \A d \in Live(Reg) :
          SiteOf(Reg, d)[1] = TUZero => SiteOf(Reg, d)[2][1] = 65535

\* how many times x occurs in q
Count(q, x) == Cardinality({i \in 1..Len(q) : q[i] = x})

\* C12: a call of obhook_list returns, calls the cb_func of every callback
\* bound in index_tbl exactly once, enabled or not, and no other, and leaves
\* the registry as it was; the callbacks of a site are called in the order
\* they were added: an Add that succeeds at a site puts its callback last in
\* what obhook_list calls there.
C12_ListFiresEveryCallbackOnce ==
    [][/\ obhook_list =>
            /\ Returns
            /\ UNCHANGED <<registry, obhook_errno>>
            /\ \A d \in Slots :
                 Count(ListFired(Reg), d) = IF d \in Live(Reg) THEN 1 ELSE 0
            /\ Len(ListFired(Reg)) = Cardinality(Live(Reg))
       /\ \A in \in AddInputs : \A d \in Slots \ Live(Reg) :
            Returns /\ index_tbl'[d] # NULL /\ IsAdd(in) =>
              FiredAt(RegNext, <<in[1], in[2]>>)
                = Append(FiredAt(Reg, <<in[1], in[2]>>), d)]_vars

\* C13: obhook_add_universal(addr, label, cb) does what
\* obhook_add_process(0, addr, label, cb) does: from every registry, for every
\* addr, label and cb and every answer of the allocator, both return the same
\* value (the same descriptor, or -1 with the same obhook_errno, the address
\* check included) and leave the same registry, or end the process the same
\* way.
C13_UniversalIsProcessZero ==
    \A addr \in KernAddrs, label \in Labels, cb \in Funcs :
      AddUniversalOutcomes(Reg, addr, label, cb)
        = AddProcessOutcomes(Reg, TUZero, addr, label, cb)

\* a universal hook is live at a kernel address, and since then an Add has
\* been refused for its address
C13_Witness ==
    /\ halted = "run"
    /\ \E d \in Live(Reg) :
         /\ cbs[index_tbl[d]].universal
         /\ SiteOf(Reg, d) = <<TUZero, KERN_ADDR>>
    /\ obhook_errno = "OBHOOK_ERR_INVALID_ADDR"

\* the 1-layer records in hook_tbl, and the 2-layer records in the table of
\* 1-layer record t
TopsOf(R) == SeqSet(ListTops(R).els)

SitesUnder(R, t) == SeqSet(IterFrom(R.ht, R.ht[t].proc_obhk_tbl, MaxNodes).els)

\* C14: a 2-layer record for (cr3, addr) is in the table of the 1-layer
\* record of cr3 exactly when a live callback is registered at (cr3, addr):
\* every 2-layer record in a table has a callback list that is not empty and
\* holds callbacks bound in index_tbl only, and the record a bound callback
\* points back to is in the table of its cr3, with the callback on its list.
C14_SiteIffCallback ==
    halted = "run" =>
      /\ \A t \in TopsOf(Reg) : \A n \in SitesUnder(Reg, t) :
            /\ ht[n].cb_list # <<>>
            /\ \A c \in SeqSet(ht[n].cb_list) : \E d \in Live(Reg) : index_tbl[d] = c
      /\ \A d \in Live(Reg) :
            \E t \in TopsOf(Reg) :
              /\ ht[t].cr3 = SiteOf(Reg, d)[1]
              /\ cbs[index_tbl[d]].ht_rec \in SitesUnder(Reg, t)
              /\ index_tbl[d] \in SeqSet(ht[cbs[index_tbl[d]].ht_rec].cb_list)

\* C15: a Delete of a live descriptor d returns and unbinds d alone: every
\* other live callback keeps its slot, uid, enabled flag, label and site
\* (cr3, addr), obhook_list still prints it, at its site in the same place
\* among the callbacks that stay, and the pending flag is as it was.
C15_DeleteFrame ==
    [][\A d \in Live(Reg) :
         obhook_delete(d) =>
           /\ Returns
           /\ Live(RegNext) = Live(Reg) \ {d}
           /\ obhook_pending_hooks' = obhook_pending_hooks
           /\ \A e \in Live(Reg) \ {d} :
                /\ cbs'[index_tbl'[e]].uid = e
                /\ cbs'[index_tbl'[e]].enabled = cbs[index_tbl[e]].enabled
                /\ cbs'[index_tbl'[e]].label = cbs[index_tbl[e]].label
                /\ SiteOf(RegNext, e) = SiteOf(Reg, e)
                /\ Count(ListedCallbacks(RegNext), BoundLine(Reg, e)) = 1
                /\ FiredAt(RegNext, SiteOf(Reg, e))
                     = SelectSeq(FiredAt(Reg, SiteOf(Reg, e)), LAMBDA x : x # d)]_vars

\* the cr3 values that have a 1-layer record in hook_tbl
TopCr3s(R) == {R.ht[t].cr3 : t \in TopsOf(R)}

\* C16: no call takes a 1-layer record out of hook_tbl: a cr3 that has one
\* before a call that returns has one after it; hook_tbl never holds two
\* records with the same cr3 (an Add finds the record of its cr3 and uses
\* it); and when a Delete removes the last callback under a cr3, the record
\* of that cr3 stays, with an empty table under it.
C16_TopLevelNeverRemoved ==
    [][Returns =>
         /\ TopCr3s(Reg) \subseteq TopCr3s(RegNext)
         /\ \A t, u \in TopsOf(RegNext) : ht'[t].cr3 = ht'[u].cr3 => t = u
         /\ \A d \in Live(Reg) :
              /\ obhook_delete(d)
              /\ \A e \in Live(Reg) \ {d} : SiteOf(Reg, e)[1] # SiteOf(Reg, d)[1]
              => \E t \in TopsOf(RegNext) :
                   /\ ht'[t].cr3 = SiteOf(Reg, d)[1]
                   /\ ht'[t].proc_obhk_tbl = NULL]_vars

\* d is the smallest descriptor free in registry R
SmallestFree(R, d) == d \in Slots \ Live(R) /\ \A i \in Slots \ Live(R) : d <= i

\* C17: an Add that succeeds returns the smallest i in 0..MAX_NM_OBHOOK-1
\* with index_tbl[i] == NULL when it was called, and binds that slot; so the
\* Add that follows a Delete(d) returns d when every slot below d is bound.
C17_SmallestFreeDescriptor ==
    /\ \A O \in AddsHere :
          Returned(O) /\ O.ret # -1 =>
            SmallestFree(Reg, O.ret) /\ O.index_tbl[O.ret] # NULL
    /\ \A d \in Live(Reg) : \A D \in DeletesHere(d) :
          Returned(D) /\ D.ret = 0 /\ (\A i \in 0..(d - 1) : i \in Live(Reg)) =>
            \A in \in ValidInputs :
              \A O \in AddOutcomes(D, in[1], in[2], in[3], in[4]) :
                Returned(O) /\ O.ret # -1 => O.ret = d

\* the table was full, descriptor 1 was deleted with descriptor 0 still
\* bound, and the next Add returns 1
C17_Witness ==
    /\ halted = "run"
    /\ obhook_errno = "OBHOOK_ERR_FULL_HOOK"
    /\ Live(Reg) = {0, 2}
    /\ \E O \in AddsHere : Returned(O) /\ O.ret = 1 /\ O.index_tbl[1] # NULL

\* C18: the callback record in an occupied slot i of index_tbl has uid = i,
\* its ht_rec points at a 2-layer record that has not been freed and whose
\* cb_list holds the callback, and its universal flag is set exactly when
\* the cr3 of that record is 0.
C18_SlotBackReference ==
    halted = "run" =>
      \A i \in Live(Reg) :
        LET cb_rec == cbs[index_tbl[i]] IN
        /\ cb_rec.st = "live"
        /\ cb_rec.uid = i
        /\ cb_rec.ht_rec # NULL
        /\ ht[cb_rec.ht_rec].st = "live"
        /\ ht[cb_rec.ht_rec].keyf = 2
        /\ index_tbl[i] \in SeqSet(ht[cb_rec.ht_rec].cb_list)
        /\ cb_rec.universal <=> (ht[cb_rec.ht_rec].cr3 = TUZero)

\* C19: obhook_list runs to its end and returns a value that tells so: the
\* same from every registry, and not the -1 that add_obhk_internal,
\* toggle_obhk and obhook_delete return when they fail.
C19_ListReturnsCompletion ==
    [][obhook_list =>
         /\ Returns
         /\ ListRun(Reg).ret # InvalidDescriptor(Reg).ret
         /\ ListRun(Reg).ret # -1]_vars

\* what is wrong with the arguments of an Add
BadAddr(in) == in[1] = TUZero /\ in[2][1] # 65535

BadLabel(in) == ~in[3].null /\ Len(in[3].str) >= MAX_SZ_OBHOOK_LABEL

BadCallback(in) == in[4] = NULL

\* C20: an Add that breaks several rules at once fails with the first of
\* OBHOOK_ERR_FULL_HOOK (no slot free), OBHOOK_ERR_INVALID_ADDR,
\* OBHOOK_ERR_INVALID_LABEL, OBHOOK_ERR_INVALID_CALLBACK that applies; and
\* a call that succeeds leaves obhook_errno as it was, as does obhook_list.
C20_ErrorPrecedence ==
    /\ \A in \in ProbeInputs :
          \A O \in AddOutcomes(Reg, in[1], in[2], in[3], in[4]) :
            /\ Live(Reg) = Slots \/ BadAddr(in) \/ BadLabel(in) \/ BadCallback(in) =>
                  FailedWith(O, IF Live(Reg) = Slots THEN "OBHOOK_ERR_FULL_HOOK"
                                ELSE IF BadAddr(in) THEN "OBHOOK_ERR_INVALID_ADDR"
                                ELSE IF BadLabel(in) THEN "OBHOOK_ERR_INVALID_LABEL"
                                ELSE "OBHOOK_ERR_INVALID_CALLBACK")
            /\ Returned(O) /\ O.ret # -1 => O.errno = obhook_errno
    /\ \A d \in Descs : \A O \in TogglesHere(d) \cup DeletesHere(d) :
          Returned(O) /\ O.ret = 0 => O.errno = obhook_errno
    /\ ListRun(Reg).errno = obhook_errno

\* the table is full, an Add has been refused for that, and an Add whose
\* address, label and callback are all wrong is refused for that too
C20_Witness ==
    /\ halted = "run"
    /\ Live(Reg) = Slots
    /\ obhook_errno = "OBHOOK_ERR_FULL_HOOK"
    /\ \E in \in ProbeInputs :
         /\ BadAddr(in) /\ BadLabel(in) /\ BadCallback(in)
         /\ \A O \in AddOutcomes(Reg, in[1], in[2], in[3], in[4]) :
              FailedWith(O, "OBHOOK_ERR_FULL_HOOK")

====
